---- MODULE Spec2Model ----
(***************************************************************************)
(* The label-addressed stage pipeline of src/src/main.rs: stages of three  *)
(* kinds (SourceStage, CropStage, MergeStage) registered with add_stage,   *)
(* wired with connect and executed by step in registration order.          *)
(***************************************************************************)
EXTENDS Integers, Sequences, FiniteSets, TLC

\* ------------------------------------------------------------------ bounds
\* Longest input list a stage is wired with (connect is capped there).
MaxInputs == 3

\* Length of the long input list handed to process directly: the fewest
\* 1920 x 1080 frames whose merged payload length passes the u32 range.
WideInputs == 2072

\* Most reads of one stage's output that are followed.
MaxReads == 3

\* Most pixels of a frame handed to a Processor.
MaxPixels == 2

\* Most processors held by a ProcessList.
MaxProcessors == 2

\* The labels the callers draw from (the labels of main).
Labels == {"cam_1", "crop_1", "merge_final"}

\* The concrete stage types.
Kinds == {"Source", "Crop", "Merge"}

\* The stages a caller constructs and hands to add_stage, as main does:
\* SourceStage::new("cam_1"), CropStage::new("crop_1"),
\* MergeStage::new("merge_final").
Registrable ==
    {<<"cam_1", "Source">>, <<"crop_1", "Crop">>, <<"merge_final", "Merge">>}

\* Option::None of last_output / get_last_frame.
None == [none |-> TRUE]

VARIABLES
    stages,           \* Pipeline.stages: label -> stage (kind, inputs, last_output)
    execution_order,  \* Pipeline.execution_order
    last,             \* the last call made on the pipeline and what it returned
    prev,             \* the pipeline as it stood when that call was made
    calls,            \* the process invocations made by that call, in order
    other,            \* a second Pipeline, built from the same stages and wiring
    probe             \* one direct call of Stage::process: its receiver, inputs, outcome

vars == <<stages, execution_order, last, prev, calls, other, probe>>

\* ------------------------------------------------------------------ frames
\* Numbers that may pass 2^31 (u32 values, usize lengths, exact products)
\* are held as little-endian strings of base-256 digits: Digits(n, k) is the
\* k-digit string of n.
RECURSIVE Digits(_, _)
Digits(n, k) ==
    IF k = 0 THEN <<>> ELSE <<n % 256>> \o Digits(n \div 256, k - 1)

\* The coefficient of 256^(j-1) in the product of two digit strings, summed
\* from the i-th digit of a on.
RECURSIVE Coeff(_, _, _, _)
Coeff(a, b, j, i) ==
    IF i > j
    THEN 0
    ELSE (IF i <= Len(a) /\ j - i + 1 <= Len(b) THEN a[i] * b[j - i + 1] ELSE 0)
         + Coeff(a, b, j, i + 1)

\* Digits j..k of the product of two digit strings: the product modulo 256^k.
RECURSIVE MulDigits(_, _, _, _, _)
MulDigits(a, b, k, j, carry) ==
    IF j > k
    THEN <<>>
    ELSE LET t == Coeff(a, b, j, 1) + carry
         IN  <<t % 256>> \o MulDigits(a, b, k, j + 1, t \div 256)

\* u32 multiplication: the product modulo 2^32 (four digits).
WrappingMul(a, b) == MulDigits(a, b, 4, 1, 0)

\* a * b is below 2^31, so it can be taken directly.
Fits(a, b) == a = 0 \/ b <= 2147483647 \div a

\* (w * h * c) in u32, as digits: taken directly where the products are
\* below 2^31 (nothing wraps there), digit by digit otherwise.
PayloadLength(w, h, c) ==
    IF Fits(w, h) /\ Fits(w * h, c)
    THEN Digits(w * h * c, 4)
    ELSE WrappingMul(WrappingMul(Digits(w, 4), Digits(h, 4)), Digits(c, 4))

\* Frame::new(w, h, c): a zero-filled buffer of ((w * h * c) as usize) bytes,
\* the product taken in u32; data_len is the buffer's length, a usize.
FrameNew(w, h, c) ==
    [width |-> w, height |-> h, channels |-> c,
     data_len |-> PayloadLength(w, h, c) \o <<0, 0, 0, 0>>]

\* ------------------------------------------------------------------ stages
\* SourceStage::new / CropStage::new / MergeStage::new (BaseEntity::new).
StageNew(kind) == [kind |-> kind, inputs |-> <<>>, last_output |-> None]

\* Entity::get_input_labels: a SourceStage reports no inputs.
get_input_labels(stage) ==
    IF stage.kind = "Source" THEN <<>> ELSE stage.inputs

\* Entity::connect: a SourceStage ignores the call.
EntityConnect(stage, inputs) ==
    IF stage.kind = "Source" THEN stage ELSE [stage EXCEPT !.inputs = inputs]

\* Stage::get_last_frame.
get_last_frame(stage) == stage.last_output

\* SourceStage::process.
SourceProcess(stage, inputs) ==
    [stage  |-> [stage EXCEPT !.last_output = FrameNew(1920, 1080, 3)],
     result |-> "Ok"]

\* CropStage::process.
CropProcess(stage, inputs) ==
    IF Len(inputs) = 0
    THEN [stage |-> stage, result |-> "Err"]
    ELSE [stage  |-> [stage EXCEPT
                        !.last_output = FrameNew(100, 100, inputs[1].channels)],
          result |-> "Ok"]

\* A merge that accepts a single input (threshold off by one).
mergeProcessOneInput(stage, inputs) ==
    IF Len(inputs) < 1
    THEN [stage |-> stage, result |-> "Err"]
    ELSE [stage  |-> [stage EXCEPT
                        !.last_output =
                            FrameNew(inputs[1].width, inputs[1].height, Len(inputs))],
          result |-> "Ok"]

\* A merge that stores an empty frame before it refuses too few inputs.
mergeProcessStoreOnErr(stage, inputs) ==
    IF Len(inputs) < 2
    THEN [stage  |-> [stage EXCEPT !.last_output = FrameNew(0, 0, Len(inputs))],
          result |-> "Err"]
    ELSE [stage  |-> [stage EXCEPT
                        !.last_output =
                            FrameNew(inputs[1].width, inputs[1].height, Len(inputs))],
          result |-> "Ok"]

\* A merge that disconnects itself when it is handed too few inputs.
mergeProcessDisconnect(stage, inputs) ==
    IF Len(inputs) < 2
    THEN [stage  |-> [stage EXCEPT !.inputs = <<>>, !.last_output = None],
          result |-> "Err"]
    ELSE [stage  |-> [stage EXCEPT
                        !.last_output =
                            FrameNew(inputs[1].width, inputs[1].height, Len(inputs))],
          result |-> "Ok"]

\* MergeStage::process.
MergeProcess(stage, inputs) ==
    IF Len(inputs) < 2
    THEN [stage |-> stage, result |-> "Err"]
    ELSE [stage  |-> [stage EXCEPT
                        !.last_output =
                            FrameNew(inputs[1].width, inputs[1].height, Len(inputs))],
          result |-> "Ok"]

\* Stage::process, dispatched on the concrete stage.
process(stage, inputs) ==
    CASE stage.kind = "Source" -> SourceProcess(stage, inputs)
      [] stage.kind = "Crop"   -> CropProcess(stage, inputs)
      [] stage.kind = "Merge"  -> MergeProcess(stage, inputs)

\* ---------------------------------------------------------------- pipeline
\* Pipeline::new.
PipelineNew == [stages |-> <<>>, execution_order |-> <<>>]

\* A registration without the contains_key check: HashMap::insert replaces
\* the stage already held and the label is pushed a second time.
addStageOverwrite(p, label, kind) ==
    [p |-> [stages |-> [l \in DOMAIN p.stages \cup {label} |->
                           IF l = label THEN StageNew(kind) ELSE p.stages[l]],
            execution_order |-> Append(p.execution_order, label)],
     result |-> "Ok"]

\* A registration that puts the new label at the head of the execution
\* order (insert(0, label) for push(label)).
addStageFront(p, label, kind) ==
    IF label \in DOMAIN p.stages
    THEN [p |-> p, result |-> "Err"]
    ELSE [p |-> [stages |-> [l \in DOMAIN p.stages \cup {label} |->
                                IF l = label THEN StageNew(kind) ELSE p.stages[l]],
                 execution_order |-> <<label>> \o p.execution_order],
          result |-> "Ok"]

\* A registration that pushes the label on the execution order before it
\* looks for a duplicate.
addStagePushFirst(p, label, kind) ==
    IF label \in DOMAIN p.stages
    THEN [p |-> [p EXCEPT !.execution_order = Append(@, label)],
          result |-> "Err"]
    ELSE [p |-> [stages |-> [l \in DOMAIN p.stages \cup {label} |->
                                IF l = label THEN StageNew(kind) ELSE p.stages[l]],
                 execution_order |-> Append(p.execution_order, label)],
          result |-> "Ok"]

\* Pipeline::add_stage on pipeline p.
add_stage(p, label, kind) ==
    IF label \in DOMAIN p.stages
    THEN [p |-> p, result |-> "Err"]
    ELSE [p |-> [stages |-> [l \in DOMAIN p.stages \cup {label} |->
                                IF l = label THEN StageNew(kind) ELSE p.stages[l]],
                 execution_order |-> Append(p.execution_order, label)],
          result |-> "Ok"]

\* A connect without step 2, the validation of the source label.
connectNoSourceCheck(p, from_label, to_label) ==
    IF to_label \notin DOMAIN p.stages
    THEN [p |-> p, result |-> "Err"]
    ELSE [p |-> [p EXCEPT !.stages[to_label] =
                    EntityConnect(@, Append(get_input_labels(@), from_label))],
          result |-> "Ok"]

\* A connect that overwrites the target's inputs with the new label alone.
connectOverwrite(p, from_label, to_label) ==
    IF to_label \notin DOMAIN p.stages
    THEN [p |-> p, result |-> "Err"]
    ELSE IF from_label \notin DOMAIN p.stages
    THEN [p |-> p, result |-> "Err"]
    ELSE [p |-> [p EXCEPT !.stages[to_label] =
                    EntityConnect(@, <<from_label>>)],
          result |-> "Ok"]

\* A connect that validates the source label only after it has updated the
\* target's inputs.
connectLateCheck(p, from_label, to_label) ==
    IF to_label \notin DOMAIN p.stages
    THEN [p |-> p, result |-> "Err"]
    ELSE [p |-> [p EXCEPT !.stages[to_label] =
                    EntityConnect(@, Append(get_input_labels(@), from_label))],
          result |-> IF from_label \notin DOMAIN p.stages THEN "Err" ELSE "Ok"]

\* Pipeline::connect on pipeline p.
connect(p, from_label, to_label) ==
    IF to_label \notin DOMAIN p.stages
    THEN [p |-> p, result |-> "Err"]
    ELSE IF from_label \notin DOMAIN p.stages
    THEN [p |-> p, result |-> "Err"]
    ELSE [p |-> [p EXCEPT !.stages[to_label] =
                    EntityConnect(@, Append(get_input_labels(@), from_label))],
          result |-> "Ok"]

\* An input gathering that lets a parent without output pass: the stage is
\* processed all the same, on the frames that exist.
RECURSIVE gatherNoSkip(_, _, _, _, _)
gatherNoSkip(st, input_labels, j, frames, valid) ==
    IF j > Len(input_labels)
    THEN [input_frames |-> frames, valid_inputs |-> TRUE]
    ELSE LET il == input_labels[j] IN
         IF il \in DOMAIN st /\ st[il].last_output # None
         THEN gatherNoSkip(st, input_labels, j + 1,
                           Append(frames, st[il].last_output), valid)
         ELSE gatherNoSkip(st, input_labels, j + 1, frames, valid)

\* The input-gathering loop of step (lines 243-255): the frames of the
\* parents that have one, and whether every registered parent had one.
RECURSIVE Gather(_, _, _, _, _)
Gather(st, input_labels, j, frames, valid) ==
    IF j > Len(input_labels)
    THEN [input_frames |-> frames, valid_inputs |-> valid]
    ELSE LET il == input_labels[j] IN
         IF il \in DOMAIN st
         THEN IF get_last_frame(st[il]) # None
              THEN Gather(st, input_labels, j + 1,
                          Append(frames, get_last_frame(st[il])), valid)
              ELSE Gather(st, input_labels, j + 1, frames, FALSE)
         ELSE Gather(st, input_labels, j + 1, frames, valid)

\* A loop that clears the stored output of a stage it skips.
RECURSIVE stepLoopClear(_, _, _, _)
stepLoopClear(st, order, i, done) ==
    IF i > Len(order)
    THEN [stages |-> st, calls |-> done, panicked |-> FALSE]
    ELSE IF order[i] \notin DOMAIN st
    THEN [stages |-> st, calls |-> done, panicked |-> TRUE]
    ELSE LET label == order[i]
             g     == Gather(st, get_input_labels(st[label]), 1, <<>>, TRUE)
             r     == process(st[label], g.input_frames)
         IN  IF g.valid_inputs
             THEN stepLoopClear([st EXCEPT ![label] = r.stage], order, i + 1,
                                Append(done, [label  |-> label,
                                              inputs |-> g.input_frames,
                                              result |-> r.result]))
             ELSE stepLoopClear([st EXCEPT ![label].last_output = None],
                                order, i + 1, done)

\* A loop that propagates a stage's error with `?` instead of dropping it:
\* the first failing process ends the tick.
RECURSIVE stepLoopAbort(_, _, _, _)
stepLoopAbort(st, order, i, done) ==
    IF i > Len(order)
    THEN [stages |-> st, calls |-> done, panicked |-> FALSE]
    ELSE IF order[i] \notin DOMAIN st
    THEN [stages |-> st, calls |-> done, panicked |-> TRUE]
    ELSE LET label == order[i]
             g     == Gather(st, get_input_labels(st[label]), 1, <<>>, TRUE)
             r     == process(st[label], g.input_frames)
             seen  == Append(done, [label  |-> label,
                                    inputs |-> g.input_frames,
                                    result |-> r.result])
         IN  IF g.valid_inputs
             THEN IF r.result = "Err"
                  THEN [stages |-> st, calls |-> seen, panicked |-> FALSE]
                  ELSE stepLoopAbort([st EXCEPT ![label] = r.stage], order,
                                     i + 1, seen)
             ELSE stepLoopAbort(st, order, i + 1, done)

\* The body of step's loop for the stage at position i of the execution order.
\* stages.get(label).unwrap() panics on a label the map does not hold.
RECURSIVE StepLoop(_, _, _, _)
StepLoop(st, order, i, done) ==
    IF i > Len(order)
    THEN [stages |-> st, calls |-> done, panicked |-> FALSE]
    ELSE IF order[i] \notin DOMAIN st
    THEN [stages |-> st, calls |-> done, panicked |-> TRUE]
    ELSE LET label == order[i]
             g     == Gather(st, get_input_labels(st[label]), 1, <<>>, TRUE)
             r     == process(st[label], g.input_frames)
         IN  IF g.valid_inputs
             THEN StepLoop([st EXCEPT ![label] = r.stage], order, i + 1,
                           Append(done, [label  |-> label,
                                         inputs |-> g.input_frames,
                                         result |-> r.result]))
             ELSE StepLoop(st, order, i + 1, done)

\* A step whose every stage reads its parents from the pipeline as it stood
\* when the step began, instead of from the stages as they stand at its turn.
RECURSIVE SnapshotLoop(_, _, _, _, _)
SnapshotLoop(snap, st, order, i, done) ==
    IF i > Len(order)
    THEN [stages |-> st, calls |-> done, panicked |-> FALSE]
    ELSE IF order[i] \notin DOMAIN st
    THEN [stages |-> st, calls |-> done, panicked |-> TRUE]
    ELSE LET label == order[i]
             g     == Gather(snap, get_input_labels(st[label]), 1, <<>>, TRUE)
             r     == process(st[label], g.input_frames)
         IN  IF g.valid_inputs
             THEN SnapshotLoop(snap, [st EXCEPT ![label] = r.stage], order, i + 1,
                               Append(done, [label  |-> label,
                                             inputs |-> g.input_frames,
                                             result |-> r.result]))
             ELSE SnapshotLoop(snap, st, order, i + 1, done)

stepSnapshot(p) ==
    LET r == SnapshotLoop(p.stages, p.stages, p.execution_order, 1, <<>>)
    IN  [p |-> [p EXCEPT !.stages = r.stages], calls |-> r.calls,
         panicked |-> r.panicked]

\* Pipeline::step on pipeline p.
step(p) ==
    LET r == StepLoop(p.stages, p.execution_order, 1, <<>>)
    IN  [p |-> [p EXCEPT !.stages = r.stages], calls |-> r.calls,
         panicked |-> r.panicked]

\* ------------------------------------------------------------------ state
Pipeline == [stages |-> stages, execution_order |-> execution_order]

\* No direct call of process is under way.
ProbeIdle ==
    [stage |-> StageNew("Source"), inputs |-> <<>>, result |-> "idle",
     after |-> StageNew("Source")]

Init ==
    /\ stages = PipelineNew.stages
    /\ execution_order = PipelineNew.execution_order
    /\ last = [op |-> "new", result |-> "Ok"]
    /\ prev = PipelineNew
    /\ calls = <<>>
    /\ other = PipelineNew
    /\ probe = ProbeIdle

\* pipeline.add_stage(Box::new(stage)) with a freshly constructed stage.
AddStageCall(s) ==
    LET r == add_stage(Pipeline, s[1], s[2]) IN
    /\ stages' = r.p.stages
    /\ execution_order' = r.p.execution_order
    /\ last' = [op |-> "add_stage", label |-> s[1], kind |-> s[2],
                result |-> r.result]
    /\ prev' = Pipeline
    /\ calls' = <<>>

AddStage ==
    \E s \in Registrable : AddStageCall(s) /\ UNCHANGED <<other, probe>>

\* The input list of to_label still has room for one more label.
HasRoom(p, to_label) ==
    to_label \in DOMAIN p.stages =>
        Len(get_input_labels(p.stages[to_label])) < MaxInputs

\* pipeline.connect(from_label, to_label).
ConnectCall(from_label, to_label) ==
    LET r == connect(Pipeline, from_label, to_label) IN
    /\ HasRoom(Pipeline, to_label)
    /\ stages' = r.p.stages
    /\ execution_order' = r.p.execution_order
    /\ last' = [op |-> "connect", from |-> from_label, to |-> to_label,
                result |-> r.result]
    /\ prev' = Pipeline
    /\ calls' = <<>>

Connect ==
    \E from_label \in Labels, to_label \in Labels :
        ConnectCall(from_label, to_label) /\ UNCHANGED <<other, probe>>

\* pipeline.step().
StepCall ==
    LET r == step(Pipeline) IN
    /\ stages' = r.p.stages
    /\ execution_order' = r.p.execution_order
    /\ last' = [op |-> "step", result |-> IF r.panicked THEN "Panic" ELSE "Ok"]
    /\ prev' = Pipeline
    /\ calls' = r.calls

Step == StepCall /\ UNCHANGED <<other, probe>>

Next == AddStage \/ Connect \/ Step

Spec == Init /\ [][Next]_vars

\* ------------------------------------------------------- two pipelines
\* Two pipelines p and q hold the same stages (same labels, same kinds).
SameStages(p, q) ==
    /\ DOMAIN p.stages = DOMAIN q.stages
    /\ \A l \in DOMAIN p.stages : p.stages[l].kind = q.stages[l].kind

\* ... the same wiring (every stage has the same input list in both).
SameWiring(p, q) ==
    \A l \in DOMAIN p.stages \cap DOMAIN q.stages :
        get_input_labels(p.stages[l]) = get_input_labels(q.stages[l])

\* ... the same outputs (same presence and same content per label).
SameOutputs(p, q) ==
    \A l \in DOMAIN p.stages \cap DOMAIN q.stages :
        get_last_frame(p.stages[l]) = get_last_frame(q.stages[l])

\* The first (resp. second) pipeline registers a stage on its own, so the
\* two registration orders may differ.
AddStageFirst ==
    \E s \in Registrable :
        LET r == add_stage(Pipeline, s[1], s[2]) IN
        /\ stages' = r.p.stages
        /\ execution_order' = r.p.execution_order
        /\ UNCHANGED <<last, prev, calls, other, probe>>

AddStageOther ==
    \E s \in Registrable :
        /\ other' = add_stage(other, s[1], s[2]).p
        /\ UNCHANGED <<stages, execution_order, last, prev, calls, probe>>

\* The same connect call made on both pipelines, once they hold the same stages.
ConnectBoth ==
    /\ SameStages(Pipeline, other)
    /\ \E from_label \in Labels, to_label \in Labels :
           /\ HasRoom(Pipeline, to_label)
           /\ HasRoom(other, to_label)
           /\ stages' = connect(Pipeline, from_label, to_label).p.stages
           /\ other' = connect(other, from_label, to_label).p
    /\ UNCHANGED <<execution_order, last, prev, calls, probe>>

\* step() called on both pipelines, once they hold the same stages.
StepBoth ==
    /\ SameStages(Pipeline, other)
    /\ stages' = step(Pipeline).p.stages
    /\ other' = step(other).p
    /\ UNCHANGED <<execution_order, last, prev, calls, probe>>

NextPair == AddStageFirst \/ AddStageOther \/ ConnectBoth \/ StepBoth

\* Two pipelines receiving the same connect and step calls, their stages
\* registered in independent orders.
SpecPair == Init /\ [][NextPair]_vars

\* ------------------------------------------------- process, called directly
\* Frames of the shapes the stages build.
Frames ==
    {FrameNew(1920, 1080, 3), FrameNew(1920, 1080, 2),
     FrameNew(100, 100, 3), FrameNew(100, 100, 2)}

\* The input lists handed to process: any short list of frames, the empty one
\* and the ones shorter than a stage expects included, and one long list (a
\* stage connected to the same source over and over).
FrameLists ==
    UNION {[1..n -> Frames] : n \in 0..MaxInputs}
    \cup {[i \in 1..WideInputs |-> FrameNew(1920, 1080, 3)]}

\* The receivers: a stage of any kind, with or without a stored output.
ProbeStages ==
    {[StageNew(kind) EXCEPT !.last_output = out] :
        kind \in Kinds, out \in {None} \cup Frames}

InitProcess ==
    /\ stages = PipelineNew.stages
    /\ execution_order = PipelineNew.execution_order
    /\ last = [op |-> "new", result |-> "Ok"]
    /\ prev = PipelineNew
    /\ calls = <<>>
    /\ other = PipelineNew
    /\ \E stage \in ProbeStages, inputs \in FrameLists :
           probe = [stage |-> stage, inputs |-> inputs, result |-> "pending",
                    after |-> stage]

\* stage.process(inputs).
CallProcess ==
    /\ probe.result = "pending"
    /\ LET r == process(probe.stage, probe.inputs) IN
       probe' = [probe EXCEPT !.result = r.result, !.after = r.stage]
    /\ UNCHANGED <<stages, execution_order, last, prev, calls, other>>

\* One call of process on any stage with any input list.
SpecProcess == InitProcess /\ [][CallProcess]_vars

\* ------------------------------------------------------------ processors
\* Sample u8 channel values.
Bytes == {0, 200}

\* data::Frame: width, height and (u8, u8, u8) pixels.
PixelFrames ==
    UNION {{[width |-> n, height |-> 1, pixels |-> px] :
                px \in [1..n -> Bytes \X Bytes \X Bytes]} : n \in 0..MaxPixels}

\* processors::Channel.
Channels == {"Red", "Green", "Blue"}

\* The tuple field a Channel names: pixel.0, pixel.1, pixel.2.
ChannelField(channel) ==
    CASE channel = "Red" -> 1 [] channel = "Green" -> 2 [] channel = "Blue" -> 3

\* The Processor values: a ClearChannel, or a ProcessList of ClearChannels.
ClearChannels == {[kind |-> "ClearChannel", channel |-> c] : c \in Channels}

Processors ==
    ClearChannels \cup
    {[kind |-> "ProcessList", processes |-> ps] :
        ps \in UNION {[1..n -> ClearChannels] : n \in 0..MaxProcessors}}

\* A ClearChannel whose Green and Blue arms write each other's field.
clearChannelSwapped(channel, input) ==
    LET f == CASE channel = "Red" -> 1 [] channel = "Green" -> 3
               [] channel = "Blue" -> 2
    IN  [input EXCEPT !.pixels =
            [i \in DOMAIN input.pixels |-> [input.pixels[i] EXCEPT ![f] = 0]]]

\* ClearChannel::process: zeroes the channel's field of every pixel of the
\* frame it was handed (input is &mut Frame; the result is that same frame).
ClearChannelProcess(channel, input) ==
    [input EXCEPT !.pixels =
        [i \in DOMAIN input.pixels |->
            [input.pixels[i] EXCEPT ![ChannelField(channel)] = 0]]]

\* ProcessList::process: every held processor in turn, on the same frame.
RECURSIVE ProcessListProcess(_, _, _)
ProcessListProcess(processes, k, input) ==
    IF k > Len(processes)
    THEN input
    ELSE ProcessListProcess(processes, k + 1,
                            ClearChannelProcess(processes[k].channel, input))

\* Processor::process, dispatched on the concrete processor.
ProcessorProcess(processor, input) ==
    IF processor.kind = "ClearChannel"
    THEN ClearChannelProcess(processor.channel, input)
    ELSE ProcessListProcess(processor.processes, 1, input)

InitProcessor ==
    /\ stages = PipelineNew.stages
    /\ execution_order = PipelineNew.execution_order
    /\ last = [op |-> "new", result |-> "Ok"]
    /\ prev = PipelineNew
    /\ calls = <<>>
    /\ other = PipelineNew
    /\ \E processor \in Processors, input \in PixelFrames :
           probe = [processor |-> processor, input |-> input,
                    result |-> "pending", after |-> input]

\* processor.process(&mut frame): `after` is the caller's frame afterwards.
CallProcessor ==
    /\ probe.result = "pending"
    /\ probe' = [probe EXCEPT !.result = "done",
                              !.after = ProcessorProcess(probe.processor,
                                                         probe.input)]
    /\ UNCHANGED <<stages, execution_order, last, prev, calls, other>>

\* One call of Processor::process on any frame.
SpecProcessor == InitProcessor /\ [][CallProcessor]_vars

\* ------------------------------------------------------- payload buffers
\* Addresses a payload buffer (Frame.data, a Vec<u8>) can be allocated at:
\* one for the stored output and one for every read.
Buffers == 1..(MaxReads + 1)

\* A getter that hands out the stored frame's own buffer.
getLastFrameShared(stage, buf, heap, fresh) ==
    IF get_last_frame(stage) = None
    THEN [got |-> None, heap |-> heap]
    ELSE [got  |-> [frame |-> get_last_frame(stage), buf |-> buf],
          heap |-> heap]

\* get_last_frame with its allocation: self.last_output.clone() is the
\* derived Frame::clone, which copies data into a buffer newly allocated at
\* `fresh`.  buf is the buffer of the stored frame, heap the live buffers.
getLastFrameClone(stage, buf, heap, fresh) ==
    IF get_last_frame(stage) = None
    THEN [got |-> None, heap |-> heap]
    ELSE [got  |-> [frame |-> get_last_frame(stage), buf |-> fresh],
          heap |-> heap \cup {fresh}]

\* A producer, with or without a stored output, its payload at any address.
InitRead ==
    /\ stages = PipelineNew.stages
    /\ execution_order = PipelineNew.execution_order
    /\ last = [op |-> "new", result |-> "Ok"]
    /\ prev = PipelineNew
    /\ calls = <<>>
    /\ other = PipelineNew
    /\ \E stage \in ProbeStages, buf \in Buffers :
           probe = [stage |-> stage,
                    buf   |-> IF stage.last_output = None THEN 0 ELSE buf,
                    heap  |-> IF stage.last_output = None THEN {} ELSE {buf},
                    got   |-> <<>>]

\* step gathers one input of a consumer: parent.get_last_frame(), the frame
\* pushed on input_frames; the allocator places the copy at any free address.
ReadOutput ==
    /\ Len(probe.got) < MaxReads
    /\ \E fresh \in Buffers \ probe.heap :
           LET r == getLastFrameClone(probe.stage, probe.buf, probe.heap, fresh)
           IN  probe' = [probe EXCEPT !.got = Append(@, r.got), !.heap = r.heap]
    /\ UNCHANGED <<stages, execution_order, last, prev, calls, other>>

\* The reads of one producer's output.
SpecRead == InitRead /\ [][ReadOutput]_vars

\* ----------------------------------------------------------------- helpers
\* The last call on the pipeline was step().
AfterStep == last.op = "step"

\* Position of a label in the execution order (0 for a label not in it).
Pos(label) ==
    IF \E i \in DOMAIN execution_order : execution_order[i] = label
    THEN CHOOSE i \in DOMAIN execution_order : execution_order[i] = label
    ELSE 0

\* The input labels step reads for a stage (step changes no input list).
InputsOf(label) == get_input_labels(stages[label])

\* The output stage a held when the last step began: the end of the tick before.
Before(a) ==
    IF a \in DOMAIN prev.stages THEN prev.stages[a].last_output ELSE None

\* The output stage a holds now; after a step, the end of that tick.
Now(a) == IF a \in DOMAIN stages THEN stages[a].last_output ELSE None

\* The output stage a held when stage b's turn came in the last step: a is
\* visited once per step, so it is a's new output if a runs before b and a's
\* output from the tick before otherwise.
AtTurn(a, b) == IF Pos(a) < Pos(b) THEN Now(a) ELSE Before(a)

\* Stage b was handed to process in the last step.
Processed(b) == \E k \in DOMAIN calls : calls[k].label = b

\* ------------------------------------------------------------------ claims
\* C1 (as stated): snapshot isolation.  For every edge A->B, the input step
\* passes to B's process for A during a tick is A's output as it stood at the
\* end of the tick before, never the value A produces during this tick.
C1_SnapshotIsolation ==
    AfterStep =>
        \A k \in DOMAIN calls :
            LET b == calls[k].label IN
            /\ Len(calls[k].inputs) = Len(InputsOf(b))
            /\ \A j \in DOMAIN InputsOf(b) :
                   calls[k].inputs[j] = Before(InputsOf(b)[j])

\* C1 (amended): for every edge A->B, the input step passes to B's process
\* for A is A's stored output at the moment of B's turn: the output A produced
\* earlier in this same tick when A precedes B in the execution order, and A's
\* output from the end of the tick before when A follows B or is B itself.
C1_InputsReadAtTurn ==
    AfterStep =>
        \A k \in DOMAIN calls :
            LET b == calls[k].label IN
            /\ Len(calls[k].inputs) = Len(InputsOf(b))
            /\ \A j \in DOMAIN InputsOf(b) :
                   calls[k].inputs[j] = AtTurn(InputsOf(b)[j], b)

\* C1 witness: a step in which one consumer was handed the output its
\* producer had just replaced by a different one, and another, running before
\* its producer, was handed the producer's output of the tick before.
C1_Witness ==
    /\ AfterStep
    /\ \E k \in DOMAIN calls : \E j \in DOMAIN InputsOf(calls[k].label) :
           LET a == InputsOf(calls[k].label)[j] IN
           /\ Pos(a) < Pos(calls[k].label)
           /\ Before(a) # None
           /\ Before(a) # Now(a)
           /\ calls[k].inputs[j] = Now(a)
    /\ \E k \in DOMAIN calls : \E j \in DOMAIN InputsOf(calls[k].label) :
           LET a == InputsOf(calls[k].label)[j] IN
           /\ Pos(a) > Pos(calls[k].label)
           /\ Processed(a)
           /\ calls[k].inputs[j] = Before(a)

\* C2 (as stated): order independence.  Two pipelines holding the same stages
\* and the same wiring, registered in different orders, have identical outputs
\* for every stage after every number of step() calls.
C2_OrderIndependence ==
    (SameStages(Pipeline, other) /\ SameWiring(Pipeline, other)) =>
        SameOutputs(Pipeline, other)

\* Label x occurs in the label sequence seq.
Occurs(seq, x) == \E i \in DOMAIN seq : seq[i] = x

\* The graph consists of the stages a and b alone (of a alone when a = b),
\* each listing the other among its inputs: a two-node cycle, or a self-loop.
Cycle(a, b) ==
    /\ DOMAIN stages = {a, b}
    /\ Occurs(InputsOf(a), b)
    /\ Occurs(InputsOf(b), a)

\* Every parent of stage b held an output when b's turn came in the last step.
Ready(b) ==
    \A j \in DOMAIN InputsOf(b) : AtTurn(InputsOf(b)[j], b) # None

\* The call record of stage b in the last step.
CallOf(b) == calls[CHOOSE k \in DOMAIN calls : calls[k].label = b]

\* C3 (as stated): cycle tolerance.  In a two-node graph where A lists B and B
\* lists A (likewise for a self-loop), every step() completes and processes
\* each node, handing it the other node's output of the tick before.
C3_CycleTolerance ==
    AfterStep =>
        \A a \in Labels, b \in Labels :
            Cycle(a, b) =>
                /\ last.result = "Ok"
                /\ Processed(a) /\ Processed(b)
                /\ \A j \in DOMAIN InputsOf(a) :
                       CallOf(a).inputs[j] = Before(InputsOf(a)[j])

\* C3 (amended): in a graph made of A and B alone, A listing B and B listing A
\* (or of one stage listing itself), every step() completes without failure
\* but processes neither node: each is skipped because its parent has no
\* output, and both stay without output after any number of steps.
C3_CycleStarves ==
    \A a \in Labels, b \in Labels :
        Cycle(a, b) =>
            /\ Now(a) = None /\ Now(b) = None
            /\ AfterStep =>
                   /\ last.result = "Ok"
                   /\ ~Processed(a) /\ ~Processed(b)

\* C3 witness: step() has just run on a two-node cycle of distinct stages.
C3_Witness ==
    /\ AfterStep
    /\ \E a \in Labels, b \in Labels : a # b /\ Cycle(a, b)

\* C4 (as stated): every step() invokes process exactly once on every
\* registered node, in registration order; no node is skipped.
C4_EveryNodeProcessed ==
    AfterStep =>
        [k \in DOMAIN calls |-> calls[k].label] = execution_order

\* C4 (amended): every step() invokes process at most once per node, in
\* registration order, on exactly the nodes whose every declared upstream
\* holds an output when the node's turn comes; the others are skipped, and a
\* skipped node and a node whose process fails keep their stored output.
C4_ProcessedWhenReady ==
    AfterStep =>
        /\ [k \in DOMAIN calls |-> calls[k].label] =
               SelectSeq(execution_order, Ready)
        /\ \A b \in DOMAIN stages :
               (~Processed(b) \/ CallOf(b).result = "Err") => Now(b) = Before(b)

\* C4 witness: a step that processed one node, skipped another, and ran a
\* third whose process failed.
C4_Witness ==
    /\ AfterStep
    /\ \E b \in DOMAIN stages : Processed(b) /\ CallOf(b).result = "Ok"
    /\ \E b \in DOMAIN stages : ~Processed(b)
    /\ \E b \in DOMAIN stages : Processed(b) /\ CallOf(b).result = "Err"

\* Some declared upstream of b had no output when b's turn came.
MissingInput(b) ==
    \E j \in DOMAIN InputsOf(b) : AtTurn(InputsOf(b)[j], b) = None

\* C5 (as stated): missing-input default.  When a node declares an upstream
\* that has produced no output, step still calls the node's process with one
\* entry per declared upstream, and the node ends the tick with an output.
C5_MissingInputDefault ==
    AfterStep =>
        \A b \in DOMAIN stages :
            MissingInput(b) =>
                /\ Processed(b)
                /\ Len(CallOf(b).inputs) = Len(InputsOf(b))
                /\ Now(b) # None

\* C5 (amended): when a node declares an upstream that holds no output at the
\* node's turn, step does not call the node's process in that tick (it only
\* warns), and the node's stored output is left as it was.
C5_MissingInputSkips ==
    AfterStep =>
        \A b \in DOMAIN stages :
            MissingInput(b) => ~Processed(b) /\ Now(b) = Before(b)

\* C5 witness: a step skipped a node that already held an output, because an
\* upstream wired to it later had none yet.
C5_Witness ==
    /\ AfterStep
    /\ \E b \in DOMAIN stages : MissingInput(b) /\ Before(b) # None

\* C6 (as stated): a failure inside one node's process does not abort the
\* tick: every other registered node is still processed in the same step, and
\* the failing node's stored output is empty.
C6_FailureIsolated ==
    AfterStep =>
        \A k \in DOMAIN calls :
            calls[k].result = "Err" =>
                /\ \A b \in DOMAIN stages \ {calls[k].label} : Processed(b)
                /\ Now(calls[k].label) = None

\* C6 (amended): a failure inside one node's process does not abort the tick:
\* every other registered node whose upstreams all hold an output at its turn
\* is still processed in the same step, and the failing node's stored output
\* is empty (None), as it was before the tick.
C6_FailureDoesNotAbort ==
    AfterStep =>
        \A k \in DOMAIN calls :
            calls[k].result = "Err" =>
                /\ \A b \in DOMAIN stages \ {calls[k].label} :
                       Ready(b) => Processed(b)
                /\ Now(calls[k].label) = None
                /\ Before(calls[k].label) = None

\* C6 witness: a step in which one node's process failed and a node later in
\* the execution order was processed successfully.
C6_Witness ==
    /\ AfterStep
    /\ \E k \in DOMAIN calls, m \in DOMAIN calls :
           /\ k < m
           /\ calls[k].result = "Err"
           /\ calls[m].result = "Ok"

\* The direct call of process has returned.
Returned == probe.result \in {"Ok", "Err"}

\* C7 (as stated): every node logic's process tolerates any input list, an
\* empty or too short one included: it never returns a failure and always
\* yields a defined output.
C7_ProcessNeverFails ==
    Returned => probe.result = "Ok" /\ probe.after.last_output # None

\* C7 (amended): SourceStage::process tolerates any input list and never
\* fails; CropStage::process returns an error exactly when the list is empty
\* and MergeStage::process exactly when it holds fewer than two frames.  A
\* successful call leaves a defined output; a failed call leaves the stage,
\* its stored output included, as it was.
C7_ProcessFailsOnShortInput ==
    Returned =>
        /\ probe.stage.kind = "Source" => probe.result = "Ok"
        /\ probe.stage.kind = "Crop" =>
               (probe.result = "Err" <=> Len(probe.inputs) = 0)
        /\ probe.stage.kind = "Merge" =>
               (probe.result = "Err" <=> Len(probe.inputs) < 2)
        /\ probe.result = "Ok" => probe.after.last_output # None
        /\ probe.result = "Err" => probe.after = probe.stage

\* C7 witness: MergeStage::process was called with one frame and returned an
\* error, on a stage that held an output.
C7_Witness ==
    /\ Returned
    /\ probe.stage.kind = "Merge"
    /\ Len(probe.inputs) = 1
    /\ probe.result = "Err"
    /\ probe.stage.last_output # None

\* C8: registering a stage whose label is already registered fails with an
\* error and leaves the pipeline's stage set, execution order, wiring and
\* stored outputs exactly as they were before the call.
C8_DuplicateRejected ==
    (last.op = "add_stage" /\ last.label \in DOMAIN prev.stages) =>
        /\ last.result = "Err"
        /\ Pipeline = prev

\* C8 witness: a duplicate registration was just attempted on a pipeline in
\* which the stage of that label was wired and held an output.
C8_Witness ==
    /\ last.op = "add_stage"
    /\ last.label \in DOMAIN prev.stages
    /\ prev.stages[last.label].inputs # <<>>
    /\ prev.stages[last.label].last_output # None

\* C9 (as stated): wiring may reference a node that is registered later (a
\* forward reference) or the node itself: registering such an input on a
\* registered node succeeds.
C9_ForwardReferenceLegal ==
    (last.op = "connect" /\ last.to \in DOMAIN prev.stages) =>
        last.result = "Ok"

\* C9 (amended): wiring may reference the node itself or any node already
\* registered, whether registered before or after the target, and then
\* succeeds; a connect whose source is not registered yet fails and changes
\* nothing.  While a wired upstream holds no output step skips the consumer,
\* and a self-loop on a processed node passes the node's own output of the
\* tick before.
C9_WiringToRegisteredOnly ==
    /\ (last.op = "connect" /\ last.to \in DOMAIN prev.stages) =>
           /\ last.result = "Ok" <=> last.from \in DOMAIN prev.stages
           /\ last.result = "Err" => Pipeline = prev
           /\ (last.result = "Ok" /\ prev.stages[last.to].kind # "Source") =>
                  Occurs(InputsOf(last.to), last.from)
    /\ AfterStep =>
           \A b \in DOMAIN stages :
               /\ MissingInput(b) => ~Processed(b)
               /\ Processed(b) =>
                      \A j \in DOMAIN InputsOf(b) :
                          InputsOf(b)[j] = b => CallOf(b).inputs[j] = Before(b)

\* C9 witness: step has just processed a node that lists itself and also
\* lists a node registered after it.
C9_Witness ==
    /\ AfterStep
    /\ \E b \in DOMAIN stages :
           /\ Processed(b)
           /\ Occurs(InputsOf(b), b)
           /\ \E j \in DOMAIN InputsOf(b) : Pos(InputsOf(b)[j]) > Pos(b)

\* C10: a connect naming a label that is not registered, as source or as
\* target, is rejected with an error and leaves every input list and the
\* stage set unchanged; every label in an input list is a registered stage,
\* so step never resolves a label that is not one.
C10_UnknownLabelRejected ==
    /\ (/\ last.op = "connect"
        /\ \/ last.from \notin DOMAIN prev.stages
           \/ last.to \notin DOMAIN prev.stages) =>
           /\ last.result = "Err"
           /\ Pipeline = prev
    /\ \A b \in DOMAIN stages :
           \A j \in DOMAIN stages[b].inputs :
               stages[b].inputs[j] \in DOMAIN stages

\* C10 witness: a connect to an unregistered target from a registered source
\* was just rejected on a pipeline that already had wiring.
C10_Witness ==
    /\ last.op = "connect"
    /\ last.result = "Err"
    /\ last.from \in DOMAIN prev.stages
    /\ last.to \notin DOMAIN prev.stages
    /\ \E b \in DOMAIN stages : stages[b].inputs # <<>>

\* C11: node identifiers are stable positions.  The k-th successfully
\* registered node takes position k of the execution order (k-1 counted from
\* 0), one past the nodes registered before it; after any add_stage, connect
\* or step call every earlier node keeps its position, and a failed
\* registration consumes no position.
C11_StablePositions ==
    /\ \A i \in DOMAIN prev.execution_order :
           /\ i \in DOMAIN execution_order
           /\ execution_order[i] = prev.execution_order[i]
    /\ (last.op = "add_stage" /\ last.result = "Ok") =>
           /\ Len(execution_order) = Len(prev.execution_order) + 1
           /\ Pos(last.label) = Cardinality(DOMAIN prev.stages) + 1
    /\ ~(last.op = "add_stage" /\ last.result = "Ok") =>
           execution_order = prev.execution_order

\* C11 witness: a third node was just registered, after a step had given the
\* two earlier ones their turn, and took the third position.
C11_Witness ==
    /\ last.op = "add_stage"
    /\ last.result = "Ok"
    /\ Len(prev.execution_order) = 2
    /\ \E b \in DOMAIN prev.stages : prev.stages[b].last_output # None
    /\ Pos(last.label) = 3

\* The output slots a stage holds: CropStage, MergeStage and SourceStage have
\* the one field last_output.
OutputSlots(stage) == <<stage.last_output>>

\* C12 (as stated): double-buffer parity.  Each node keeps two output slots,
\* so that after a step() the slot that is not active still holds the value
\* the node published one tick earlier (empty before the first tick).
C12_DoubleBuffer ==
    AfterStep =>
        \A b \in DOMAIN stages :
            \E i \in DOMAIN OutputSlots(stages[b]) :
                OutputSlots(stages[b])[i] = Before(b)

\* C12 (amended): each node has one output slot, last_output, empty when the
\* node is registered, and no active index.  A step() overwrites the slot in
\* place with the frame a successful process built and leaves it alone when
\* the node is skipped or its process fails, so the value published one tick
\* earlier is not kept once a new one is stored.
C12_SingleSlotOverwritten ==
    /\ (last.op = "add_stage" /\ last.result = "Ok") =>
           OutputSlots(stages[last.label]) = <<None>>
    /\ AfterStep =>
           \A b \in DOMAIN stages :
               OutputSlots(stages[b]) =
                   << IF Processed(b) /\ CallOf(b).result = "Ok"
                      THEN process(prev.stages[b], CallOf(b).inputs)
                               .stage.last_output
                      ELSE Before(b) >>

\* C12 witness: a step has just replaced a node's earlier output by a
\* different frame.
C12_Witness ==
    /\ AfterStep
    /\ \E b \in DOMAIN stages :
           /\ Processed(b)
           /\ Before(b) # None
           /\ Now(b) # Before(b)

\* The tuple fields the processor of the direct call clears.
ClearedFields ==
    IF probe.processor.kind = "ClearChannel"
    THEN {ChannelField(probe.processor.channel)}
    ELSE {ChannelField(probe.processor.processes[k].channel) :
             k \in DOMAIN probe.processor.processes}

\* C13 (as stated): copy-on-write.  A processing unit that changes pixel
\* content never mutates the frame it received: the input frame's pixels are
\* identical before and after process.
C13_CopyOnWrite ==
    probe.result = "done" => probe.after = probe.input

\* C13 (amended): ClearChannel and ProcessList change pixel content by
\* mutating the frame they receive, in place: after process the caller's
\* frame has the same width, height and number of pixels, every pixel's
\* cleared channels are 0 and its other channels are as before; no new frame
\* is built.
C13_ClearsInPlace ==
    probe.result = "done" =>
        /\ probe.after.width = probe.input.width
        /\ probe.after.height = probe.input.height
        /\ DOMAIN probe.after.pixels = DOMAIN probe.input.pixels
        /\ \A i \in DOMAIN probe.input.pixels : \A f \in 1..3 :
               probe.after.pixels[i][f] =
                   IF f \in ClearedFields THEN 0 ELSE probe.input.pixels[i][f]

\* C13 witness: a ProcessList of two different ClearChannels has run on a
\* frame and left it with other pixel content than it had.
C13_Witness ==
    /\ probe.result = "done"
    /\ probe.processor.kind = "ProcessList"
    /\ Cardinality(ClearedFields) = 2
    /\ probe.after # probe.input

\* width * height * channels of a frame, exactly (twelve digits hold any
\* product of three u32 values).
ExactLength(frame) ==
    MulDigits(MulDigits(Digits(frame.width, 4), Digits(frame.height, 4), 8, 1, 0),
              Digits(frame.channels, 4), 12, 1, 0)

\* C14: payload length invariant.  Every frame stored as a stage's output
\* has data.length = width * height * channels, for the outputs of
\* SourceStage, CropStage and MergeStage alike.
C14_PayloadLength ==
    \A frame \in {probe.stage.last_output, probe.after.last_output} \ {None} :
        frame.data_len \o <<0, 0, 0, 0>> = ExactLength(frame)

\* The frames handed to consumers by the reads made so far.
Handed == {i \in DOMAIN probe.got : probe.got[i] # None}

\* C15 (as stated): reference sharing.  The consumer receives the same
\* payload allocation that the producer stores; no copy of the bytes is made.
C15_ReferenceSharing ==
    /\ \A i \in Handed : probe.got[i].buf = probe.buf
    /\ Cardinality(probe.heap) <= 1

\* C15 (amended): every frame step hands to a consumer is a copy of the
\* producer's stored output: equal in width, height, channels and payload
\* length, held in a payload allocation of its own (different from the
\* producer's and from that of every other copy handed out), one more live
\* allocation per read; a producer without output hands out nothing.
C15_CopyPerRead ==
    /\ \A i \in Handed :
           /\ probe.got[i].frame = probe.stage.last_output
           /\ probe.got[i].buf # probe.buf
           /\ probe.got[i].buf \in probe.heap
           /\ \A j \in Handed : j # i => probe.got[j].buf # probe.got[i].buf
    /\ probe.stage.last_output = None => Handed = {} /\ probe.heap = {}
    /\ probe.stage.last_output # None =>
           /\ Handed = DOMAIN probe.got
           /\ probe.buf \in probe.heap
           /\ Cardinality(probe.heap) = 1 + Len(probe.got)

\* C15 witness: a stored output has been read twice.
C15_Witness ==
    /\ probe.stage.last_output # None
    /\ Cardinality(Handed) >= 2

\* The last call was a connect that returned Ok.
ConnectOk == last.op = "connect" /\ last.result = "Ok"

\* C16 (as stated): every successful connect(from, to) appends `from` as the
\* last element of `to`'s input list, keeping the earlier entries in order,
\* whatever the kind of the target; the input lists of all other stages are
\* unchanged.
C16_ConnectAppends ==
    ConnectOk =>
        /\ InputsOf(last.to) =
               Append(get_input_labels(prev.stages[last.to]), last.from)
        /\ \A b \in DOMAIN stages \ {last.to} :
               InputsOf(b) = get_input_labels(prev.stages[b])

\* C16 (amended): a successful connect(from, to) on a CropStage or MergeStage
\* target appends `from` as the last element of `to`'s input list, keeping
\* the earlier entries in order; on a SourceStage target it returns Ok and
\* records nothing (a source's input list is always empty).  Nothing else
\* changes: the other stages, the target's stored output, the set of stages
\* and the execution order are as before.
C16_ConnectAppendsUnlessSource ==
    ConnectOk =>
        /\ DOMAIN stages = DOMAIN prev.stages
        /\ execution_order = prev.execution_order
        /\ stages[last.to].kind # "Source" =>
               stages[last.to] =
                   [prev.stages[last.to] EXCEPT
                       !.inputs = Append(prev.stages[last.to].inputs, last.from)]
        /\ stages[last.to].kind = "Source" =>
               /\ stages[last.to] = prev.stages[last.to]
               /\ InputsOf(last.to) = <<>>
        /\ \A b \in DOMAIN stages \ {last.to} : stages[b] = prev.stages[b]

\* C16 witness: a successful connect to a non-source target that already had
\* an input, in a pipeline that also holds a source with a stored output.
C16_Witness ==
    /\ ConnectOk
    /\ stages[last.to].kind # "Source"
    /\ Len(prev.stages[last.to].inputs) >= 1
    /\ \E b \in DOMAIN stages : stages[b].kind = "Source" /\ Now(b) # None

\* C17: step() changes only stored outputs.  The set of registered stages,
\* the execution order and every stage's input list (and kind) are the same
\* after step() as before it.
C17_StepChangesOnlyOutputs ==
    AfterStep =>
        /\ DOMAIN stages = DOMAIN prev.stages
        /\ execution_order = prev.execution_order
        /\ \A b \in DOMAIN stages :
               /\ stages[b].inputs = prev.stages[b].inputs
               /\ stages[b].kind = prev.stages[b].kind

\* C17 witness: a step on a wired pipeline in which one stage's output was
\* replaced and the process of a stage with an input failed.
C17_Witness ==
    /\ AfterStep
    /\ \E b \in DOMAIN stages :
           Len(stages[b].inputs) >= 1 /\ Now(b) # Before(b)
    /\ \E k \in DOMAIN calls :
           calls[k].result = "Err" /\ Len(InputsOf(calls[k].label)) >= 1

\* C18: after any sequence of add_stage, connect and step calls, successful
\* or failed, the execution order contains no duplicate label and its set of
\* labels is the key set of the stage map, so step's lookup of each label of
\* the execution order finds a stage (step never panics on it).
C18_OrderMatchesStages ==
    /\ \A i \in DOMAIN execution_order, j \in DOMAIN execution_order :
           i # j => execution_order[i] # execution_order[j]
    /\ {execution_order[i] : i \in DOMAIN execution_order} = DOMAIN stages
    /\ AfterStep => last.result = "Ok"

\* C18 witness: an add_stage has just been refused, on a pipeline of at least
\* two stages that has been stepped (a stage holds an output).
C18_Witness ==
    /\ last.op = "add_stage"
    /\ last.result = "Err"
    /\ Len(execution_order) >= 2
    /\ \E b \in DOMAIN stages : Now(b) # None

\* C19: when a stage's process returns an error (CropStage with no input,
\* MergeStage with fewer than two inputs), the stage's stored last output is
\* unchanged by the call, and a stage that step skips because an upstream has
\* no output also keeps its stored output unchanged.
C19_ErrorAndSkipKeepOutput ==
    AfterStep =>
        /\ \A k \in DOMAIN calls :
               calls[k].result = "Err" =>
                   /\ \/ stages[calls[k].label].kind = "Crop"
                         /\ Len(calls[k].inputs) = 0
                      \/ stages[calls[k].label].kind = "Merge"
                         /\ Len(calls[k].inputs) < 2
                   /\ stages[calls[k].label].last_output =
                          prev.stages[calls[k].label].last_output
        /\ \A b \in DOMAIN stages :
               MissingInput(b) =>
                   stages[b].last_output = prev.stages[b].last_output

\* C19 witness: one step in which a merge with a single input failed and a
\* stage that held an output was skipped for an upstream without output.
C19_Witness ==
    /\ AfterStep
    /\ \E k \in DOMAIN calls :
           /\ calls[k].result = "Err"
           /\ stages[calls[k].label].kind = "Merge"
           /\ Len(calls[k].inputs) = 1
    /\ \E b \in DOMAIN stages :
           MissingInput(b) /\ ~Processed(b) /\ prev.stages[b].last_output # None

====
